---- MODULE Spec2Model ----
(***************************************************************************)
(* A model of the mini-rag pipeline: PDFProcessor (pdf_processor.py),      *)
(* VectorStore (vector_store.py) and RAGSystem (rag_system.py).            *)
(*                                                                         *)
(* The specifications share the variables:                                 *)
(*   Spec        one RAGSystem driven through load_pdf and                 *)
(*               generate_answer, one call at a time;                      *)
(*   SpecStore   one VectorStore driven through its own interface:         *)
(*               build_index, search, save_index, load_index;              *)
(*   SpecChunks  PDFProcessor.create_chunks on bounded inputs;             *)
(*   SpecSearch  Spec together with direct searches of its store;          *)
(*   SpecThreads app.py's handlers running load_pdf and generate_answer    *)
(*               on threads of their own, statement by statement.          *)
(*                                                                         *)
(* The embedding model, FAISS, the generation pipeline and the PDF         *)
(* readers are external: each call to them either succeeds or raises, and  *)
(* the `fault` input of an action names the external call that raises.     *)
(***************************************************************************)
EXTENDS Integers, Sequences, FiniteSets, TLC

VARIABLES
    is_ready,         \* RAGSystem.is_ready
    current_pdf,      \* RAGSystem.current_pdf
    generator,        \* RAGSystem.generator
    model_name,       \* VectorStore.model_name
    embedding_model,  \* VectorStore.embedding_model
    index,            \* VectorStore.index
    chunks,           \* VectorStore.chunks
    dimension,        \* VectorStore.dimension
    disk,             \* the files save_index writes and load_index reads
    last,             \* the last call: its inputs, the state before it, its outcome
    genLoads,         \* history: number of times a pipeline was assigned to generator
    readyAsked,       \* history: a generate_answer was issued with is_ready true
    everBuilt,        \* history: a build_index or load_index has completed
    threads           \* app.py's handlers in flight: each one's position and locals

vars == << is_ready, current_pdf, generator, model_name, embedding_model,
           index, chunks, dimension, disk, last, genLoads, readyAsked,
           everBuilt, threads >>

ragVars   == << is_ready, current_pdf, generator, genLoads, readyAsked >>
storeVars == << model_name, embedding_model, index, chunks, dimension >>

----------------------------------------------------------------------------
(* Values *)

\* Python's None for the string-valued attributes, and for the index.
None == "None"
NoIndex == [none |-> TRUE]
\* VectorStore.dimension before an embedding model is loaded (None).
NoDimension == 0
\* A key that a returned dict does not carry.
Absent == "absent"

\* RAGSystem.__init__'s default embedding model, and another model whose
\* saved indexes may be found on disk.
DefaultModel == "sentence-transformers/all-mpnet-base-v2"
OtherModel == "A"
\* get_sentence_embedding_dimension() of the external models.
Dim(m) == IF m = DefaultModel THEN 768 ELSE 384

\* PDFProcessor() defaults, as RAGSystem constructs it.
chunk_size == 500
overlap == 50

\* generate_answer's default max_context_chunks is 3; k ranges over 1..MaxK.
MaxK == 3

Min(a, b) == IF a <= b THEN a ELSE b

----------------------------------------------------------------------------
(* Documents: what the external PDF readers and clean_text yield *)

Paths == {"missing.pdf", "blank.pdf", "short.pdf", "long.pdf"}

\* Path(pdf_path).exists()
PathExists(p) == p # "missing.pdf"
\* raw_text.strip() is empty: no page carries text
RawBlank(p) == p = "blank.pdf"
\* number of whitespace-delimited tokens of clean_text(raw_text)
CleanWords(p) == IF p = "short.pdf" THEN 300 ELSE IF p = "long.pdf" THEN 1200 ELSE 0

\* A chunk's text: words [from, to) of document doc, either the cleaned text
\* verbatim (whole) or the words joined by single spaces.
Text(doc, from, to, whole) == [doc |-> doc, from |-> from, to |-> to, whole |-> whole]

ChunkInfo(text, id, start, end, count) ==
    [text |-> text, chunk_id |-> id, start_word |-> start, end_word |-> end,
     word_count |-> count]

\* The loop advancing by a whole window, without the overlap.
RECURSIVE ChunkLoop_no_overlap(_, _, _, _, _, _)
ChunkLoop_no_overlap(doc, T, cs, ov, i, acc) ==
    IF i >= T THEN acc
    ELSE LET end == Min(i + cs, T)
             info == ChunkInfo(Text(doc, i, end, FALSE), Len(acc), i, end, end - i)
             out == Append(acc, info)
         IN IF i + cs >= T THEN out
            ELSE ChunkLoop_no_overlap(doc, T, cs, ov, i + cs, out)

\* The loop without its break, ended by range() alone.
RECURSIVE ChunkLoop_no_break(_, _, _, _, _, _)
ChunkLoop_no_break(doc, T, cs, ov, i, acc) ==
    IF i >= T THEN acc
    ELSE LET end == Min(i + cs, T)
             info == ChunkInfo(Text(doc, i, end, FALSE), Len(acc), i, end, end - i)
             out == Append(acc, info)
         IN ChunkLoop_no_break(doc, T, cs, ov, i + (cs - ov), out)

\* the for loop of create_chunks: range(0, len(words), cs - ov) from i on
RECURSIVE ChunkLoop(_, _, _, _, _, _)
ChunkLoop(doc, T, cs, ov, i, acc) ==
    IF i >= T THEN acc
    ELSE LET end == Min(i + cs, T)
             info == ChunkInfo(Text(doc, i, end, FALSE), Len(acc), i, end, end - i)
             out == Append(acc, info)
         IN IF i + cs >= T THEN out
            ELSE ChunkLoop(doc, T, cs, ov, i + (cs - ov), out)

\* PDFProcessor.create_chunks on a text of T tokens
create_chunks(doc, T, cs, ov) ==
    IF T = 0 THEN << >>
    ELSE IF T <= cs THEN << ChunkInfo(Text(doc, 0, T, TRUE), 0, 0, T, T) >>
    ELSE ChunkLoop(doc, T, cs, ov, 0, << >>)

\* PDFProcessor.process_pdf: the chunks, or the exception it raises
process_pdf(p, fault) ==
    IF ~PathExists(p) THEN [ok |-> FALSE, exc |-> "FileNotFoundError: le fichier n'existe pas"]
    ELSE IF fault = "extract" THEN [ok |-> FALSE, exc |-> "extraction failed"]
    ELSE IF RawBlank(p) THEN [ok |-> TRUE, chunks |-> << >>]
    ELSE [ok |-> TRUE, chunks |-> create_chunks(p, CleanWords(p), chunk_size, overlap)]

----------------------------------------------------------------------------
(* VectorStore *)

\* The attributes of a VectorStore, as one value.
Store(mn, em, ix, ch, dm) ==
    [model_name |-> mn, embedding_model |-> em, index |-> ix, chunks |-> ch,
     dimension |-> dm]

\* VectorStore.__init__
NewStore(mn) == Store(mn, None, NoIndex, << >>, NoDimension)

\* The external embedding model: the unit vector model m yields for a text.
Embed(m, text) == [model |-> m, text |-> text]

Questions == {"q_first", "q_tie"}

\* The external similarity of a question and a stored vector, in thousandths
\* (inner product of unit vectors). "q_first" is closest to the beginning of a
\* document; "q_tie" is equally close to every chunk.
Score(q, v) == IF q = "q_tie" THEN 500 ELSE 900 - (v.text.from \div 2)

\* VectorStore.load_embedding_model
load_embedding_model(S) ==
    IF S.embedding_model = None
    THEN [S EXCEPT !.embedding_model = S.model_name, !.dimension = Dim(S.model_name)]
    ELSE S

\* faiss.IndexFlatIP(d) and the vectors added to it
FlatIP(d, vecs) == [d |-> d, vecs |-> vecs]
ntotal(ix) == Len(ix.vecs)

\* VectorStore.build_index. fault "encode": embedding_model.encode raises;
\* fault "add": normalize_L2 / index.add raises. index.add also raises when
\* the vectors' dimension is not the index's.
build_index(S, newChunks, fault) ==
    LET S1 == [S EXCEPT !.chunks = newChunks]
        S2 == load_embedding_model(S1)
        embeddings == [i \in 1..Len(newChunks) |->
                          Embed(S2.embedding_model, newChunks[i].text)]
        S3 == [S2 EXCEPT !.index = FlatIP(S2.dimension, << >>)]
    IN  IF fault = "encode"
        THEN [store |-> S2, ok |-> FALSE, exc |-> "encode failed"]
        ELSE IF fault = "add"
        THEN [store |-> S3, ok |-> FALSE, exc |-> "add failed"]
        ELSE IF Len(newChunks) > 0 /\ Dim(S2.embedding_model) # S2.dimension
        THEN [store |-> S3, ok |-> FALSE, exc |-> "AssertionError"]
        ELSE [store |-> [S3 EXCEPT !.index = FlatIP(S2.dimension, embeddings)],
              ok |-> TRUE, exc |-> None]

\* index.search(query, k): the positions (1-based here, idx + 1) of the
\* min(k, ntotal) best vectors, best first; FAISS pads the rest with -1.
\* The order among equal scores is FAISS's choice.
Rankings(q, ix, k) ==
    LET n == ntotal(ix)
        m == Min(k, n)
    IN  { s \in [1..m -> 1..n] :
            /\ \A a, b \in 1..m : a # b => s[a] # s[b]
            /\ \A a, b \in 1..m : a < b => Score(q, ix.vecs[s[a]]) >= Score(q, ix.vecs[s[b]])
            /\ \A j \in 1..n : (\A a \in 1..m : s[a] # j) =>
                  \A a \in 1..m : Score(q, ix.vecs[j]) <= Score(q, ix.vecs[s[a]]) }

\* search handing back FAISS's positions in reverse, worst first.
search_reversed(S, q, k, fault) ==
    IF S.index = NoIndex
    THEN { [store |-> S, ok |-> FALSE, results |-> << >>,
            exc |-> "Index non construit. Appelez build_index() d'abord."] }
    ELSE LET S1 == load_embedding_model(S)
             m == Min(k, ntotal(S1.index))
         IN  IF fault = "encode"
             THEN { [store |-> S1, ok |-> FALSE, results |-> << >>, exc |-> "encode failed"] }
             ELSE IF Dim(S1.embedding_model) # S1.index.d
             THEN { [store |-> S1, ok |-> FALSE, results |-> << >>, exc |-> "AssertionError"] }
             ELSE { IF \E a \in DOMAIN s : s[a] > Len(S1.chunks)
                    THEN [store |-> S1, ok |-> FALSE, results |-> << >>,
                          exc |-> "IndexError: list index out of range"]
                    ELSE [store |-> S1, ok |-> TRUE, exc |-> None,
                          results |-> [a \in DOMAIN s |->
                                         [chunk |-> S1.chunks[s[m + 1 - a]],
                                          score |-> Score(q, S1.index.vecs[s[m + 1 - a]])]]]
                    : s \in Rankings(q, S1.index, k) }

\* VectorStore.search: the set of its possible outcomes.
search(S, q, k, fault) ==
    IF S.index = NoIndex
    THEN { [store |-> S, ok |-> FALSE, results |-> << >>,
            exc |-> "Index non construit. Appelez build_index() d'abord."] }
    ELSE LET S1 == load_embedding_model(S)
         IN  IF fault = "encode"
             THEN { [store |-> S1, ok |-> FALSE, results |-> << >>, exc |-> "encode failed"] }
             ELSE IF Dim(S1.embedding_model) # S1.index.d
             THEN { [store |-> S1, ok |-> FALSE, results |-> << >>, exc |-> "AssertionError"] }
             ELSE { IF \E a \in DOMAIN s : s[a] > Len(S1.chunks)
                    THEN [store |-> S1, ok |-> FALSE, results |-> << >>,
                          exc |-> "IndexError: list index out of range"]
                    ELSE [store |-> S1, ok |-> TRUE, exc |-> None,
                          results |-> [a \in DOMAIN s |->
                                         [chunk |-> S1.chunks[s[a]],
                                          score |-> Score(q, S1.index.vecs[s[a]])]]]
                    : s \in Rankings(q, S1.index, k) }

\* The two files of a saved index.
Files == {"saved", "foreign"}
NoFile == [missing |-> TRUE]

\* VectorStore.save_index. fault "write_faiss": faiss.write_index raises;
\* fault "write_pkl": opening the .pkl for writing raises.
save_index(S, D, fp, fault) ==
    LET meta == [chunks |-> S.chunks, model_name |-> S.model_name,
                 dimension |-> S.dimension]
        D1 == [D EXCEPT ![fp].faiss = S.index]
    IN  IF S.index = NoIndex
        THEN [disk |-> D, ok |-> FALSE, exc |-> "Aucun index a sauvegarder"]
        ELSE IF fault = "write_faiss"
        THEN [disk |-> D, ok |-> FALSE, exc |-> "write_index failed"]
        ELSE IF fault = "write_pkl"
        THEN [disk |-> D1, ok |-> FALSE, exc |-> "open failed"]
        ELSE [disk |-> [D1 EXCEPT ![fp].pkl = meta], ok |-> TRUE, exc |-> None]

\* VectorStore.load_index
load_index(S, D, fp) ==
    IF D[fp].faiss = NoFile
    THEN [store |-> S, ok |-> FALSE, exc |-> "FileNotFoundError: Index non trouve"]
    ELSE LET S1 == [S EXCEPT !.index = D[fp].faiss]
         IN  IF D[fp].pkl = NoFile
             THEN [store |-> S1, ok |-> FALSE,
                   exc |-> "FileNotFoundError: Metadonnees non trouvees"]
             ELSE [store |-> [S1 EXCEPT !.chunks = D[fp].pkl.chunks,
                                        !.model_name = D[fp].pkl.model_name,
                                        !.dimension = D[fp].pkl.dimension],
                   ok |-> TRUE, exc |-> None]

\* VectorStore.get_stats
get_stats(S) ==
    IF S.index = NoIndex THEN [status |-> "Index non construit"]
    ELSE [nb_vectors |-> ntotal(S.index), dimension |-> S.dimension,
          nb_chunks |-> Len(S.chunks), model |-> S.model_name]

----------------------------------------------------------------------------
(* RAGSystem *)

\* The attributes of a RAGSystem, as one value.
Rag(rd, pdf, gen) == [is_ready |-> rd, current_pdf |-> pdf, generator |-> gen]

\* The handle pipeline("text2text-generation", model=generation_model_name) returns.
Pipeline == "google/flan-t5-large"

\* load_generation_model without the `generator is None` test.
load_generation_model_always(R, fault) ==
    IF fault = "pipeline"
    THEN [rag |-> R, ok |-> FALSE, exc |-> "pipeline failed", loaded |-> FALSE]
    ELSE [rag |-> [R EXCEPT !.generator = Pipeline], ok |-> TRUE, exc |-> None,
          loaded |-> TRUE]

\* load_generation_model that keeps a handle although pipeline(...) raised.
load_generation_model_stale(R, fault) ==
    IF R.generator = None
    THEN IF fault = "pipeline"
         THEN [rag |-> [R EXCEPT !.generator = Pipeline], ok |-> FALSE,
               exc |-> "pipeline failed", loaded |-> FALSE]
         ELSE [rag |-> [R EXCEPT !.generator = Pipeline], ok |-> TRUE, exc |-> None,
               loaded |-> TRUE]
    ELSE [rag |-> R, ok |-> TRUE, exc |-> None, loaded |-> FALSE]

\* RAGSystem.load_generation_model. fault "pipeline": pipeline(...) raises.
load_generation_model(R, fault) ==
    IF R.generator = None
    THEN IF fault = "pipeline"
         THEN [rag |-> R, ok |-> FALSE, exc |-> "pipeline failed", loaded |-> FALSE]
         ELSE [rag |-> [R EXCEPT !.generator = Pipeline], ok |-> TRUE, exc |-> None,
               loaded |-> TRUE]
    ELSE [rag |-> R, ok |-> TRUE, exc |-> None, loaded |-> FALSE]

\* The statistics load_pdf returns.
NoStats == [pdf_path |-> Absent, nb_chunks |-> 0, status |-> Absent]

\* load_pdf whose except clause does not touch is_ready.
load_pdf_keep_ready(R, S, pdf_path, fault) ==
    LET result == process_pdf(pdf_path, fault)
    IN  IF ~result.ok
        THEN [rag |-> R, store |-> S, raised |-> TRUE, exc |-> result.exc,
              stats |-> NoStats]
        ELSE LET built == build_index(S, result.chunks, fault)
             IN  IF ~built.ok
                 THEN [rag |-> R, store |-> built.store, raised |-> TRUE,
                       exc |-> built.exc, stats |-> NoStats]
                 ELSE [rag |-> [R EXCEPT !.current_pdf = pdf_path, !.is_ready = TRUE],
                       store |-> built.store, raised |-> FALSE, exc |-> None,
                       stats |-> [pdf_path |-> pdf_path, nb_chunks |-> Len(result.chunks),
                                  status |-> "Pret pour les questions"]]

\* load_pdf that records the document and sets is_ready before build_index,
\* and whose except clause does not take them back.
load_pdf_ready_early(R, S, pdf_path, fault) ==
    LET result == process_pdf(pdf_path, fault)
        early == [R EXCEPT !.current_pdf = pdf_path, !.is_ready = TRUE]
    IN  IF ~result.ok
        THEN [rag |-> [R EXCEPT !.is_ready = FALSE], store |-> S, raised |-> TRUE,
              exc |-> result.exc, stats |-> NoStats]
        ELSE LET built == build_index(S, result.chunks, fault)
             IN  IF ~built.ok
                 THEN [rag |-> early, store |-> built.store, raised |-> TRUE,
                       exc |-> built.exc, stats |-> NoStats]
                 ELSE [rag |-> early, store |-> built.store, raised |-> FALSE,
                       exc |-> None,
                       stats |-> [pdf_path |-> pdf_path, nb_chunks |-> Len(result.chunks),
                                  status |-> "Pret pour les questions"]]

\* RAGSystem.load_pdf. fault "extract": text extraction raises; faults
\* "encode" and "add" are build_index's.
load_pdf(R, S, pdf_path, fault) ==
    LET result == process_pdf(pdf_path, fault)
        failed == [R EXCEPT !.is_ready = FALSE]
    IN  IF ~result.ok
        THEN [rag |-> failed, store |-> S, raised |-> TRUE, exc |-> result.exc,
              stats |-> NoStats]
        ELSE LET built == build_index(S, result.chunks, fault)
             IN  IF ~built.ok
                 THEN [rag |-> failed, store |-> built.store, raised |-> TRUE,
                       exc |-> built.exc, stats |-> NoStats]
                 ELSE [rag |-> [R EXCEPT !.current_pdf = pdf_path, !.is_ready = TRUE],
                       store |-> built.store, raised |-> FALSE, exc |-> None,
                       stats |-> [pdf_path |-> pdf_path, nb_chunks |-> Len(result.chunks),
                                  status |-> "Pret pour les questions"]]

\* The dict generate_answer returns; answer is a sequence of text pieces.
Response(answer, sources, error, status, question) ==
    [answer |-> answer, sources |-> sources, error |-> error, status |-> status,
     question |-> question]
NoResponse == Response(<< >>, << >>, Absent, Absent, Absent)

NoPdfResponse ==
    Response(<< "Aucun PDF charge. Veuillez d'abord charger un document." >>, << >>,
             "no_pdf_loaded", Absent, Absent)
NoContentResponse ==
    Response(<< "Aucun contenu pertinent trouve dans le document." >>, << >>,
             "no_relevant_content", Absent, Absent)
ErrorResponse(exc) ==
    Response(<< "Erreur lors de la generation: ", exc >>, << >>, "generation_error",
             Absent, Absent)

\* The sources list of a successful answer.
Sources(results) ==
    [i \in DOMAIN results |->
        [chunk_id |-> results[i].chunk.chunk_id, text |-> results[i].chunk.text,
         score |-> results[i].score]]

\* One outcome of generate_answer.
Outcome(R, S, raised, exc, resp, loaded, searched, generated) ==
    [rag |-> R, store |-> S, raised |-> raised, exc |-> exc, resp |-> resp,
     loaded |-> loaded, searched |-> searched, generated |-> generated]

\* An except clause that re-raises instead of answering.
on_exception_reraise(R, S, exc, loaded, searched, generated) ==
    Outcome(R, S, TRUE, exc, NoResponse, loaded, searched, generated)

\* generate_answer's except clause: the exception becomes a response.
on_exception(R, S, exc, loaded, searched, generated) ==
    Outcome(R, S, FALSE, None, ErrorResponse(exc), loaded, searched, generated)

\* answer_from without the `if not search_results` test.
answer_from_unchecked(R, sr, question, fault, loaded) ==
    IF fault = "generate"
    THEN on_exception(R, sr.store, "generation failed", loaded, TRUE, TRUE)
    ELSE Outcome(R, sr.store, FALSE, None,
                 Response(<< "generated_text" >>, Sources(sr.results), Absent,
                          "success", question),
                 loaded, TRUE, TRUE)

\* generate_answer after the search returned sr: the empty-result answer, or
\* the generator call and the sources. fault "generate": the generator raises.
answer_from(R, sr, question, fault, loaded) ==
    IF Len(sr.results) = 0
    THEN Outcome(R, sr.store, FALSE, None, NoContentResponse, loaded, TRUE, FALSE)
    ELSE IF fault = "generate"
    THEN on_exception(R, sr.store, "generation failed", loaded, TRUE, TRUE)
    ELSE Outcome(R, sr.store, FALSE, None,
                 Response(<< "generated_text" >>, Sources(sr.results), Absent,
                          "success", question),
                 loaded, TRUE, TRUE)

\* generate_answer's try block: load the generation model if there is none,
\* search, answer. fault "pipeline": loading the generation model raises;
\* "encode": embedding the question raises.
answer_ready(R, S, question, k, fault) ==
    LET lg == load_generation_model(R, fault)
    IN  IF ~lg.ok
        THEN { on_exception(lg.rag, S, lg.exc, lg.loaded, FALSE, FALSE) }
        ELSE { IF ~sr.ok
               THEN on_exception(lg.rag, sr.store, sr.exc, lg.loaded, TRUE, FALSE)
               ELSE answer_from(lg.rag, sr, question, fault, lg.loaded)
               : sr \in search(S, question, k, fault) }

\* generate_answer without the is_ready test.
generate_answer_unguarded(R, S, question, k, fault) ==
    answer_ready(R, S, question, k, fault)

\* RAGSystem.generate_answer: the set of its possible outcomes.
generate_answer(R, S, question, k, fault) ==
    IF ~R.is_ready
    THEN { Outcome(R, S, FALSE, None, NoPdfResponse, FALSE, FALSE, FALSE) }
    ELSE answer_ready(R, S, question, k, fault)

----------------------------------------------------------------------------
(* State, and one action per call *)

CurRag == Rag(is_ready, current_pdf, generator)
CurStore == Store(model_name, embedding_model, index, chunks, dimension)

SetRag(R) ==
    /\ is_ready' = R.is_ready
    /\ current_pdf' = R.current_pdf
    /\ generator' = R.generator

SetStore(S) ==
    /\ model_name' = S.model_name
    /\ embedding_model' = S.embedding_model
    /\ index' = S.index
    /\ chunks' = S.chunks
    /\ dimension' = S.dimension

\* The record of a call: what was called with what, the state before it,
\* whether it raised, and what it returned.
Call(op, arg, k, fault, raised, exc, resp, stats, results, loaded, searched, generated) ==
    [op |-> op, arg |-> arg, k |-> k, fault |-> fault,
     pre |-> [rag |-> CurRag, store |-> CurStore, disk |-> disk],
     raised |-> raised, exc |-> exc, resp |-> resp, stats |-> stats,
     results |-> results, loaded |-> loaded, searched |-> searched,
     generated |-> generated]

\* The event listeners of app.py whose handlers touch rag_system: Gradio runs
\* each listener's handler on a worker thread of its own.
Uploads == {"pdf_upload.change"}
Chats == {"send_btn.click", "msg_input.submit"}
Handlers == Uploads \cup Chats

\* What a search has read: the vectors it ranked, the positions FAISS
\* returned, and the chunk list it then indexed with them.
NoObs == [seen |-> FALSE]
Obs(vecs, ranking, chs) == [seen |-> TRUE, vecs |-> vecs, ranking |-> ranking, chunks |-> chs]

\* A handler's thread: where it stands (pc), its argument, the value its
\* local variables hold, and what its last search read.
Thread(pc, arg, local, obs) == [pc |-> pc, arg |-> arg, local |-> local, obs |-> obs]
Idle == Thread("idle", None, << >>, NoObs)

\* An index saved earlier by a store of another embedding model.
ForeignChunks == create_chunks("short.pdf", CleanWords("short.pdf"), chunk_size, overlap)
ForeignIndex == build_index(NewStore(OtherModel), ForeignChunks, "none").store

Init ==
    /\ is_ready = FALSE
    /\ current_pdf = None
    /\ generator = None
    /\ model_name = DefaultModel
    /\ embedding_model = None
    /\ index = NoIndex
    /\ chunks = << >>
    /\ dimension = NoDimension
    /\ disk = [f \in Files |->
                 IF f = "foreign"
                 THEN [faiss |-> ForeignIndex.index,
                       pkl |-> [chunks |-> ForeignIndex.chunks,
                                model_name |-> ForeignIndex.model_name,
                                dimension |-> ForeignIndex.dimension]]
                 ELSE [faiss |-> NoFile, pkl |-> NoFile]]
    /\ last = [op |-> "init", arg |-> None, k |-> 0, fault |-> "none",
               pre |-> [rag |-> Rag(FALSE, None, None),
                        store |-> NewStore(DefaultModel), disk |-> << >>],
               raised |-> FALSE, exc |-> None, resp |-> NoResponse, stats |-> NoStats,
               results |-> << >>, loaded |-> FALSE, searched |-> FALSE,
               generated |-> FALSE]
    /\ genLoads = 0
    /\ readyAsked = FALSE
    /\ everBuilt = FALSE
    /\ threads = [t \in Handlers |-> Idle]

LoadFaults == {"none", "extract", "encode", "add"}
AnswerFaults == {"none", "pipeline", "encode", "generate"}
BuildFaults == {"none", "encode", "add"}
SearchFaults == {"none", "encode"}
SaveFaults == {"none", "write_faiss", "write_pkl"}

\* rag_system.load_pdf(pdf_path)
LoadPdf ==
    \E p \in Paths, fault \in LoadFaults :
        LET o == load_pdf(CurRag, CurStore, p, fault)
        IN  /\ SetRag(o.rag)
            /\ SetStore(o.store)
            /\ last' = Call("load_pdf", p, 0, fault, o.raised, o.exc, NoResponse,
                            o.stats, << >>, FALSE, FALSE, FALSE)
            /\ everBuilt' = (everBuilt \/ ~o.raised)
            /\ UNCHANGED << disk, genLoads, readyAsked, threads >>

\* rag_system.generate_answer(question, max_context_chunks)
GenerateAnswer ==
    \E q \in Questions, k \in 1..MaxK, fault \in AnswerFaults :
        \E o \in generate_answer(CurRag, CurStore, q, k, fault) :
            /\ SetRag(o.rag)
            /\ SetStore(o.store)
            /\ last' = Call("generate_answer", q, k, fault, o.raised, o.exc, o.resp,
                            NoStats, << >>, o.loaded, o.searched, o.generated)
            /\ genLoads' = IF o.loaded THEN genLoads + 1 ELSE genLoads
            /\ readyAsked' = (readyAsked \/ is_ready)
            /\ UNCHANGED << disk, everBuilt, threads >>

\* The chunk lists process_pdf can hand to build_index.
ChunkLists == { process_pdf(p, "none").chunks : p \in {q \in Paths : PathExists(q)} }

\* vector_store.build_index(chunks)
BuildIndex ==
    \E cl \in ChunkLists, fault \in BuildFaults :
        LET o == build_index(CurStore, cl, fault)
        IN  /\ SetStore(o.store)
            /\ last' = Call("build_index", None, 0, fault, ~o.ok, o.exc, NoResponse,
                            NoStats, << >>, FALSE, FALSE, FALSE)
            /\ everBuilt' = (everBuilt \/ o.ok)
            /\ UNCHANGED << ragVars, disk, threads >>

\* vector_store.search(query, k)
Search ==
    \E q \in Questions, k \in 1..MaxK, fault \in SearchFaults :
        \E o \in search(CurStore, q, k, fault) :
            /\ SetStore(o.store)
            /\ last' = Call("search", q, k, fault, ~o.ok, o.exc, NoResponse,
                            NoStats, o.results, FALSE, TRUE, FALSE)
            /\ UNCHANGED << ragVars, disk, everBuilt, threads >>

\* vector_store.save_index(filepath)
SaveIndex ==
    \E fault \in SaveFaults :
        LET o == save_index(CurStore, disk, "saved", fault)
        IN  /\ disk' = o.disk
            /\ last' = Call("save_index", "saved", 0, fault, ~o.ok, o.exc, NoResponse,
                            NoStats, << >>, FALSE, FALSE, FALSE)
            /\ UNCHANGED << ragVars, storeVars, everBuilt, threads >>

\* vector_store.load_index(filepath)
LoadIndex ==
    \E f \in Files :
        LET o == load_index(CurStore, disk, f)
        IN  /\ SetStore(o.store)
            /\ last' = Call("load_index", f, 0, "none", ~o.ok, o.exc, NoResponse,
                            NoStats, << >>, FALSE, FALSE, FALSE)
            /\ everBuilt' = (everBuilt \/ o.ok)
            /\ UNCHANGED << ragVars, disk, threads >>

\* The texts create_chunks is applied to: every token count up to MaxTokens
\* with every chunk_size up to MaxChunkSize and every overlap below it, and
\* the 1200-word document with PDFProcessor's defaults.
MaxTokens == 12
MaxChunkSize == 5
SegmentInputs ==
    { [T |-> T, cs |-> cs, ov |-> ov] :
        T \in 0..MaxTokens, cs \in 1..MaxChunkSize, ov \in 0..(MaxChunkSize - 1) }
SegmentCases ==
    { c \in SegmentInputs : c.cs > c.ov }
        \cup { [T |-> CleanWords("long.pdf"), cs |-> chunk_size, ov |-> overlap] }

\* PDFProcessor(chunk_size, overlap).create_chunks(text)
CreateChunks ==
    \E c \in SegmentCases :
        /\ last' = Call("create_chunks", c, 0, "none", FALSE, None, NoResponse, NoStats,
                        create_chunks("text", c.T, c.cs, c.ov), FALSE, FALSE, FALSE)
        /\ UNCHANGED << ragVars, storeVars, disk, everBuilt, threads >>

----------------------------------------------------------------------------
(* The handlers on threads. upload_pdf runs load_pdf and chat_with_pdf runs *)
(* generate_answer on the one global rag_system; the code takes no lock, so *)
(* the threads interleave between any two accesses to its attributes. Each  *)
(* action below is one such access, with the external call that precedes it.*)

\* generate_answer's default max_context_chunks, which chat_with_pdf uses.
max_context_chunks == 3

At(t, pc) == threads[t].pc = pc
Goto(t, pc, arg, local, obs) ==
    threads' = [threads EXCEPT ![t] = Thread(pc, arg, local, obs)]

\* load_pdf up to the call of build_index: process_pdf, and the except
\* clause when it raises.
StartLoad(t) ==
    /\ At(t, "idle")
    /\ \E p \in Paths :
          LET r == process_pdf(p, "none")
          IN  IF r.ok
              THEN /\ Goto(t, "build_index", p, r.chunks, NoObs)
                   /\ UNCHANGED is_ready
              ELSE /\ is_ready' = FALSE
                   /\ UNCHANGED threads
    /\ UNCHANGED << current_pdf, generator, genLoads, readyAsked, storeVars,
                    disk, last, everBuilt >>

\* build_index: self.chunks = chunks
BuildSetChunks(t) ==
    /\ At(t, "build_index")
    /\ chunks' = threads[t].local
    /\ Goto(t, "create_embeddings", threads[t].arg, threads[t].local, NoObs)
    /\ UNCHANGED << ragVars, model_name, embedding_model, index, dimension,
                    disk, last, everBuilt >>

\* build_index: embeddings = self.create_embeddings(texts)
BuildEmbeddings(t) ==
    /\ At(t, "create_embeddings")
    /\ LET S1 == load_embedding_model(CurStore)
           texts == threads[t].local
       IN  /\ embedding_model' = S1.embedding_model
           /\ dimension' = S1.dimension
           /\ Goto(t, "IndexFlatIP", threads[t].arg,
                   [i \in 1..Len(texts) |-> Embed(S1.embedding_model, texts[i].text)],
                   NoObs)
    /\ UNCHANGED << ragVars, model_name, index, chunks, disk, last, everBuilt >>

\* build_index: self.index = faiss.IndexFlatIP(self.dimension)
BuildNewIndex(t) ==
    /\ At(t, "IndexFlatIP")
    /\ index' = FlatIP(dimension, << >>)
    /\ Goto(t, "add", threads[t].arg, threads[t].local, NoObs)
    /\ UNCHANGED << ragVars, model_name, embedding_model, chunks, dimension,
                    disk, last, everBuilt >>

\* build_index: normalize_L2 and self.index.add(embeddings)
BuildAdd(t) ==
    /\ At(t, "add")
    /\ index' = FlatIP(index.d, threads[t].local)
    /\ everBuilt' = TRUE
    /\ Goto(t, "is_ready", threads[t].arg, << >>, NoObs)
    /\ UNCHANGED << ragVars, model_name, embedding_model, chunks, dimension,
                    disk, last >>

\* load_pdf after build_index: self.current_pdf = pdf_path; self.is_ready = True
FinishLoad(t) ==
    /\ At(t, "is_ready")
    /\ current_pdf' = threads[t].arg
    /\ is_ready' = TRUE
    /\ threads' = [threads EXCEPT ![t] = Idle]
    /\ UNCHANGED << generator, genLoads, readyAsked, storeVars, disk, last,
                    everBuilt >>

\* generate_answer: if not self.is_ready, return the no_pdf_loaded response
StartAnswer(t) ==
    /\ At(t, "idle")
    /\ \E q \in Questions :
          IF is_ready
          THEN Goto(t, "generator", q, << >>, NoObs)
          ELSE threads' = [threads EXCEPT ![t] = Idle]
    /\ readyAsked' = (readyAsked \/ is_ready)
    /\ UNCHANGED << is_ready, current_pdf, generator, genLoads, storeVars,
                    disk, last, everBuilt >>

\* generate_answer / load_generation_model: if self.generator is None
CheckGenerator(t) ==
    /\ At(t, "generator")
    /\ IF generator = None
       THEN Goto(t, "pipeline", threads[t].arg, << >>, NoObs)
       ELSE Goto(t, "search", threads[t].arg, << >>, NoObs)
    /\ UNCHANGED << ragVars, storeVars, disk, last, everBuilt >>

\* load_generation_model: self.generator = pipeline(...)
LoadGenerator(t) ==
    /\ At(t, "pipeline")
    /\ generator' = Pipeline
    /\ genLoads' = genLoads + 1
    /\ Goto(t, "search", threads[t].arg, << >>, NoObs)
    /\ UNCHANGED << is_ready, current_pdf, readyAsked, storeVars, disk, last,
                    everBuilt >>

\* search up to self.index.search(query_embedding, k); the ValueError of an
\* unbuilt index is caught by generate_answer.
SearchIndex(t) ==
    /\ At(t, "search")
    /\ IF index = NoIndex
       THEN /\ threads' = [threads EXCEPT ![t] = Idle]
            /\ UNCHANGED << embedding_model, dimension >>
       ELSE LET S1 == load_embedding_model(CurStore)
            IN  /\ embedding_model' = S1.embedding_model
                /\ dimension' = S1.dimension
                /\ \E s \in Rankings(threads[t].arg, index, max_context_chunks) :
                      Goto(t, "chunks", threads[t].arg,
                           [vecs |-> index.vecs, ranking |-> s], NoObs)
    /\ UNCHANGED << ragVars, model_name, index, chunks, disk, last, everBuilt >>

\* search's loop: self.chunks[idx] for each position returned; the IndexError
\* of a position past the list is caught by generate_answer.
LookupChunks(t) ==
    /\ At(t, "chunks")
    /\ LET l == threads[t].local
           o == Obs(l.vecs, l.ranking, chunks)
       IN  IF \E a \in DOMAIN l.ranking : l.ranking[a] > Len(chunks)
           THEN Goto(t, "idle", None, << >>, o)
           ELSE Goto(t, "generate", threads[t].arg, << >>, o)
    /\ UNCHANGED << ragVars, storeVars, disk, last, everBuilt >>

\* generate_answer from the prompt to the returned response
Generate(t) ==
    /\ At(t, "generate")
    /\ Goto(t, "idle", None, << >>, threads[t].obs)
    /\ UNCHANGED << ragVars, storeVars, disk, last, everBuilt >>

UploadPdf ==
    \E t \in Uploads :
        \/ StartLoad(t)
        \/ BuildSetChunks(t)
        \/ BuildEmbeddings(t)
        \/ BuildNewIndex(t)
        \/ BuildAdd(t)
        \/ FinishLoad(t)

ChatWithPdf ==
    \E t \in Chats :
        \/ StartAnswer(t)
        \/ CheckGenerator(t)
        \/ LoadGenerator(t)
        \/ SearchIndex(t)
        \/ LookupChunks(t)
        \/ Generate(t)

Next == LoadPdf \/ GenerateAnswer
Spec == Init /\ [][Next]_vars

NextStore == BuildIndex \/ Search \/ SaveIndex \/ LoadIndex
SpecStore == Init /\ [][NextStore]_vars

\* The session, with searches made on its vector store directly.
NextSearch == LoadPdf \/ GenerateAnswer \/ Search
SpecSearch == Init /\ [][NextSearch]_vars

NextChunks == CreateChunks
SpecChunks == Init /\ [][NextChunks]_vars

NextThreads == UploadPdf \/ ChatWithPdf
SpecThreads == Init /\ [][NextThreads]_vars

----------------------------------------------------------------------------
(* Claims about the session (Spec) *)

\* The last call was a load_pdf in which extraction or indexing failed: the
\* file does not exist, or an external call of the load raised.
LoadFails ==
    /\ last.op = "load_pdf"
    /\ (~PathExists(last.arg) \/ last.fault # "none")

\* C1, as stated: a load_pdf that fails with an exception leaves is_ready as
\* it was before the call.
C1_ReadyKeptOnFailedLoad ==
    (last.op = "load_pdf" /\ last.raised) => is_ready = last.pre.rag.is_ready

\* C1, amended: a load_pdf that fails during extraction or indexing raises
\* to its caller and leaves is_ready false, whatever it was before the call.
C1_ReadyResetOnFailedLoad ==
    /\ LoadFails => (last.raised /\ last.exc # None)
    /\ (last.op = "load_pdf" /\ last.raised) => is_ready = FALSE

\* A load failed after an earlier load had made the session ready.
C1_Witness ==
    /\ LoadFails
    /\ last.raised
    /\ last.pre.rag.is_ready
    /\ last.pre.rag.current_pdf # None

\* The last call was a generate_answer issued while no document was loaded.
NotReadyCall ==
    /\ last.op = "generate_answer"
    /\ ~last.pre.rag.is_ready

\* What C2 says of such a call, for the tag the response carries.
NotReadyAnswer(tag) ==
    NotReadyCall =>
        /\ ~last.raised
        /\ last.resp.error = tag
        /\ last.resp.sources = << >>
        /\ last.resp.answer = << "Aucun PDF charge. Veuillez d'abord charger un document." >>
        /\ CurRag = last.pre.rag
        /\ CurStore = last.pre.store
        /\ disk = last.pre.disk
        /\ ~last.loaded /\ ~last.searched /\ ~last.generated
        /\ (current_pdf = None => generator = None)

\* C2, as stated: with no document loaded, generate_answer returns the fixed
\* response with empty sources tagged no_document_loaded, and changes nothing.
C2_NoDocumentLoadedTag == NotReadyAnswer("no_document_loaded")

\* C2, amended: with no document loaded, generate_answer returns the fixed
\* response with empty sources tagged no_pdf_loaded; is_ready, current_pdf,
\* the index and the generator (unloaded while no load ever succeeded) are
\* unchanged, and neither search nor generation is invoked.
C2_NoPdfLoadedTag == NotReadyAnswer("no_pdf_loaded")

\* A question asked after a load that failed from the initial state inside
\* build_index (the embedding model is loaded, no document ever was).
C2_Witness ==
    /\ NotReadyCall
    /\ last.pre.rag.current_pdf = None
    /\ last.pre.store.embedding_model # None
    /\ last.resp.error = "no_pdf_loaded"

\* The message of the exception that the last generate_answer met, None when
\* none of its external calls raised: the generation model is loaded only
\* when there is none, and the generator is called only on a non-empty result.
AnswerFailure ==
    IF last.op # "generate_answer" \/ ~last.pre.rag.is_ready THEN None
    ELSE IF last.fault = "pipeline" /\ last.pre.rag.generator = None THEN "pipeline failed"
    ELSE IF last.pre.store.index = NoIndex
         THEN "Index non construit. Appelez build_index() d'abord."
    ELSE IF last.fault = "encode" THEN "encode failed"
    ELSE IF last.fault = "generate" /\ ntotal(last.pre.store.index) > 0
         THEN "generation failed"
    ELSE None

\* C3: generate_answer never raises; when retrieval or generation failed it
\* returns empty sources tagged generation_error with the exception's message
\* in the answer, and is_ready and current_pdf are as before the call.
C3_AnswerNeverRaises ==
    last.op = "generate_answer" =>
        /\ ~last.raised
        /\ is_ready = last.pre.rag.is_ready
        /\ current_pdf = last.pre.rag.current_pdf
        /\ AnswerFailure # None =>
              /\ last.resp.error = "generation_error"
              /\ last.resp.sources = << >>
              /\ last.resp.answer = << "Erreur lors de la generation: ", AnswerFailure >>

\* The generator raised on a retrieved context, in a ready session.
C3_Witness ==
    /\ last.op = "generate_answer"
    /\ AnswerFailure = "generation failed"
    /\ last.generated
    /\ is_ready

\* C5: a load_pdf that fails leaves the index, the chunk list and
\* current_pdf exactly as they were before the call.
C5_FailedLoadKeepsIndex ==
    (last.op = "load_pdf" /\ last.raised) =>
        /\ index = last.pre.store.index
        /\ chunks = last.pre.store.chunks
        /\ current_pdf = last.pre.rag.current_pdf

\* C6: the generation model is loaded lazily and once: never before a
\* generate_answer issued in the ready state, always before the generator is
\* called, within a call only when there was none, and never a second time.
C6_GeneratorLoadedOnce ==
    /\ genLoads <= 1
    /\ (generator = None) <=> (genLoads = 0)
    /\ generator # None => readyAsked
    /\ last.generated => generator # None
    /\ last.loaded => (last.pre.rag.is_ready /\ last.pre.rag.generator = None)
    /\ last.pre.rag.generator # None => generator = last.pre.rag.generator

\* A later question answered by the handle that an earlier question loaded.
C6_Witness ==
    /\ last.op = "generate_answer"
    /\ last.generated /\ ~last.loaded
    /\ last.pre.rag.generator = Pipeline
    /\ current_pdf = "long.pdf"
    /\ genLoads = 1

\* The last call was a generate_answer in the ready state with no generation
\* model loaded, and loading it failed.
BackendLoadFails ==
    /\ last.op = "generate_answer"
    /\ last.pre.rag.is_ready
    /\ last.pre.rag.generator = None
    /\ last.fault = "pipeline"

\* The session is as ready as before the last call, with no generation model.
StaysReadyUnloaded ==
    /\ is_ready
    /\ current_pdf = last.pre.rag.current_pdf
    /\ CurStore = last.pre.store
    /\ generator = None

\* C7, as stated: the failed load of the generation model reaches the caller
\* of generate_answer as the backend's error, and the session stays ready.
C7_BackendErrorSurfaces ==
    BackendLoadFails =>
        /\ last.raised /\ last.exc = "pipeline failed"
        /\ StaysReadyUnloaded

\* C7, amended: the failed load is caught and answered with empty sources
\* tagged generation_error, the exception's message in the answer; the
\* session stays ready, the index unchanged, the generation model unloaded.
C7_BackendErrorAnswered ==
    BackendLoadFails =>
        /\ ~last.raised
        /\ last.resp.error = "generation_error"
        /\ last.resp.sources = << >>
        /\ last.resp.answer = << "Erreur lors de la generation: ", "pipeline failed" >>
        /\ ~last.searched /\ ~last.generated
        /\ StaysReadyUnloaded

\* The load of the generation model failed on a question about a loaded document.
C7_Witness ==
    /\ BackendLoadFails
    /\ current_pdf = "long.pdf"
    /\ ntotal(index) = Len(chunks) /\ Len(chunks) > 1

\* A document that exists and yields no chunk.
EmptyDocument(p) == PathExists(p) /\ (RawBlank(p) \/ CleanWords(p) = 0)

\* The last call loaded an empty document and none of its external calls raised.
EmptyLoad ==
    /\ last.op = "load_pdf"
    /\ EmptyDocument(last.arg)
    /\ last.fault = "none"

\* The last call was a generate_answer on a ready session whose document is empty.
EmptyAsked ==
    /\ last.op = "generate_answer"
    /\ last.pre.rag.is_ready
    /\ EmptyDocument(last.pre.rag.current_pdf)

\* The load of an empty document builds an empty index and makes the session ready.
EmptyLoadReady ==
    EmptyLoad =>
        /\ ~last.raised
        /\ is_ready /\ current_pdf = last.arg
        /\ index # NoIndex /\ ntotal(index) = 0 /\ chunks = << >>

\* The answer on zero results: the fixed response, the generator not called.
NoContentAnswer ==
    /\ ~last.raised
    /\ last.searched /\ ~last.generated
    /\ last.resp.error = "no_relevant_content"
    /\ last.resp.sources = << >>
    /\ last.resp.answer = << "Aucun contenu pertinent trouve dans le document." >>

DocumentChunks(p) == process_pdf(p, "none").chunks

\* C16: whenever is_ready is true the index is built and holds exactly the
\* chunks of the document current_pdf names, that of the last load_pdf that
\* completed; is_ready becomes true and current_pdf changes only in a
\* load_pdf that returned, after its build_index.
C16_ReadyMeansIndexed ==
    /\ is_ready =>
          /\ current_pdf \in Paths /\ PathExists(current_pdf)
          /\ index # NoIndex
          /\ chunks = DocumentChunks(current_pdf)
          /\ index.vecs = [i \in 1..Len(chunks) |-> Embed(embedding_model, chunks[i].text)]
    /\ (last.op = "load_pdf" /\ ~last.raised) =>
          (is_ready /\ current_pdf = last.arg)
    /\ (is_ready /\ ~last.pre.rag.is_ready) =>
          (last.op = "load_pdf" /\ ~last.raised)
    /\ current_pdf # last.pre.rag.current_pdf =>
          (last.op = "load_pdf" /\ ~last.raised /\ current_pdf = last.arg)

\* A load that succeeds after a failed load had left the session not ready
\* with the chunks of another document.
C16_Witness ==
    /\ last.op = "load_pdf" /\ ~last.raised
    /\ is_ready
    /\ ~last.pre.rag.is_ready
    /\ last.pre.rag.current_pdf \notin {None, last.arg}
    /\ last.pre.store.chunks # chunks
    /\ Len(chunks) = 3

----------------------------------------------------------------------------
(* Claims about the vector store (SpecStore) *)

\* C4: the stored vectors and the stored chunks are parallel: as many
\* vectors as chunks, vector i the embedding of chunk i.
C4_VectorsParallelToChunks ==
    LET vecs == IF index = NoIndex THEN << >> ELSE index.vecs
    IN  /\ Len(vecs) = Len(chunks)
        /\ \A i \in 1..Len(vecs) : \E m \in {DefaultModel, OtherModel} :
              vecs[i] = Embed(m, chunks[i].text)

\* C9: search on a store on which no build_index and no load_index has
\* completed raises the index-not-built error and returns nothing.
C9_SearchUnbuiltRaises ==
    (last.op = "search" /\ ~everBuilt) =>
        /\ last.raised
        /\ last.exc = "Index non construit. Appelez build_index() d'abord."

\* The last call restored a saved index whose model is not the store's.
RestoreOtherModel ==
    /\ last.op = "load_index"
    /\ last.pre.disk[last.arg].faiss # NoFile
    /\ last.pre.disk[last.arg].pkl # NoFile
    /\ last.pre.disk[last.arg].pkl.model_name # last.pre.store.model_name

\* C10: load_index of an index saved for another embedding model raises and
\* leaves the index, the chunks, the model name and the dimension unchanged.
C10_RestoreRejectsOtherModel ==
    RestoreOtherModel =>
        /\ last.raised
        /\ CurStore = last.pre.store

----------------------------------------------------------------------------
(* Claims about the handlers on threads (SpecThreads) *)

\* A build is in flight: build_index has been entered and load_pdf has not
\* returned.
BuildInFlight == \E t \in Uploads : ~At(t, "idle")

\* A search returned, or failed on, a chunk that is not the one whose vector
\* FAISS ranked: the position is past the chunk list it indexed, or the chunk
\* there carries another text than the vector.
Torn(o) ==
    /\ o.seen
    /\ \E a \in DOMAIN o.ranking :
          LET pos == o.ranking[a]
          IN  \/ pos > Len(o.chunks)
              \/ o.vecs[pos].text # o.chunks[pos].text

\* C11, as stated: a search or generate_answer that runs while a build is in
\* flight is serialized against it; in no interleaving does a reader see the
\* chunk list of the new document with the vectors of the previous one.
C11_NoTornRead == \A t \in Chats : ~Torn(threads[t].obs)

\* C12, as stated: with generate_answer called concurrently while the
\* generation backend is unloaded, at most one load of the backend is in
\* flight at a time, and the backend is loaded at most once in total.
C12_OneGeneratorLoad ==
    /\ Cardinality({ t \in Chats : At(t, "pipeline") }) <= 1
    /\ genLoads <= 1

----------------------------------------------------------------------------
(* Claims about the segmenter (SpecChunks) *)

\* The token range [start_word, end_word) of a chunk.
Range(c) == { w \in c.start_word..(c.end_word - 1) : TRUE }

\* The last call segmented a text longer than one chunk.
LongSegmented ==
    /\ last.op = "create_chunks"
    /\ last.arg.T > last.arg.cs

\* C13: for T > chunk_size > overlap >= 0, each chunk starts overlap tokens
\* before the end of the one before it and shares exactly overlap tokens with
\* it, the ranges cover [0, T) exactly, and start_word, end_word are offsets
\* into the whole token sequence with word_count = end_word - start_word.
C13_OverlapAndCoverage ==
    LongSegmented =>
        LET c == last.results
            n == Len(c)
            T == last.arg.T
        IN  /\ n >= 2
            /\ \A j \in 1..(n - 1) :
                  /\ c[j + 1].start_word = c[j].end_word - last.arg.ov
                  /\ Cardinality(Range(c[j]) \cap Range(c[j + 1])) = last.arg.ov
            /\ UNION { Range(c[j]) : j \in 1..n } = 0..(T - 1)
            /\ \A j \in 1..n :
                  /\ 0 <= c[j].start_word /\ c[j].start_word < c[j].end_word
                  /\ c[j].end_word <= T
                  /\ c[j].word_count = c[j].end_word - c[j].start_word
                  /\ c[j].text.from = c[j].start_word /\ c[j].text.to = c[j].end_word

\* A text cut into three chunks that overlap, the last one shorter.
C13_Witness ==
    /\ LongSegmented
    /\ last.arg.ov > 0
    /\ Len(last.results) = 3
    /\ last.results[3].word_count < last.arg.cs

\* The smallest n with (n - 1) * (cs - ov) + cs >= T.
RECURSIVE WindowsFrom(_, _, _, _)
WindowsFrom(n, T, cs, ov) ==
    IF (n - 1) * (cs - ov) + cs >= T THEN n ELSE WindowsFrom(n + 1, T, cs, ov)

\* C14: create_chunks returns no chunk for an empty text, one chunk of T
\* words for 0 < T <= chunk_size, and otherwise the smallest n with
\* (n-1)*(chunk_size-overlap) + chunk_size >= T, chunk j with id j starting
\* at j*(chunk_size-overlap) before token T; 1200 words with chunk_size 500
\* and overlap 50 give three chunks starting at 0, 450, 900.
C14_ChunkCount ==
    last.op = "create_chunks" =>
        LET c == last.results
            n == Len(c)
            T == last.arg.T
            cs == last.arg.cs
            ov == last.arg.ov
        IN  /\ T = 0 => n = 0
            /\ (0 < T /\ T <= cs) =>
                  (n = 1 /\ c[1].word_count = T /\ c[1].start_word = 0 /\ c[1].end_word = T)
            /\ T > cs => n = WindowsFrom(1, T, cs, ov)
            /\ \A j \in 1..n :
                  /\ c[j].chunk_id = j - 1
                  /\ c[j].start_word = (j - 1) * (cs - ov)
                  /\ c[j].start_word < T
                  /\ (j < n) => c[j].start_word + cs < T
            /\ (T = 1200 /\ cs = 500 /\ ov = 50) =>
                  [j \in 1..n |-> c[j].start_word] = << 0, 450, 900 >>

\* The 1200-word text, segmented with the defaults.
C14_Witness ==
    /\ last.op = "create_chunks"
    /\ last.arg = [T |-> 1200, cs |-> 500, ov |-> 50]
    /\ Len(last.results) = 3

----------------------------------------------------------------------------
(* Claims about retrieval (SpecSearch) *)

\* The last call was a search that returned, or a generate_answer that
\* answered from retrieved chunks.
Searched == last.op = "search" /\ ~last.raised
Answered == last.op = "generate_answer" /\ last.resp.status = "success"

\* Results r are at most min(k, vector count), each a chunk of the store, no
\* chunk twice.
WithinStore(r) ==
    /\ Len(r) <= Min(last.k, ntotal(last.pre.store.index))
    /\ \A a \in 1..Len(r) :
          \E i \in 1..Len(last.pre.store.chunks) : last.pre.store.chunks[i] = r[a].chunk
    /\ \A a, b \in 1..Len(r) : a # b => r[a].chunk.chunk_id # r[b].chunk.chunk_id

\* The sources are at most max_context_chunks, the chunks of a search.
SourcesWithinStore(src) ==
    /\ Len(src) <= Min(last.k, ntotal(last.pre.store.index))
    /\ \A a \in 1..Len(src) :
          \E i \in 1..Len(last.pre.store.chunks) :
              /\ last.pre.store.chunks[i].chunk_id = src[a].chunk_id
              /\ last.pre.store.chunks[i].text = src[a].text
    /\ \A a, b \in 1..Len(src) : a # b => src[a].chunk_id # src[b].chunk_id

\* C15, as stated: search returns at most min(k, vector count) results, each
\* a distinct stored chunk, strictly descending by score with equal scores
\* in ascending chunk id; generate_answer's sources are at most
\* max_context_chunks, in that order.
C15_DescendingTiesById ==
    /\ Searched =>
          /\ WithinStore(last.results)
          /\ \A a, b \in 1..Len(last.results) : a < b =>
                \/ last.results[a].score > last.results[b].score
                \/ /\ last.results[a].score = last.results[b].score
                   /\ last.results[a].chunk.chunk_id < last.results[b].chunk.chunk_id
    /\ Answered =>
          /\ SourcesWithinStore(last.resp.sources)
          /\ \A a, b \in 1..Len(last.resp.sources) : a < b =>
                \/ last.resp.sources[a].score > last.resp.sources[b].score
                \/ /\ last.resp.sources[a].score = last.resp.sources[b].score
                   /\ last.resp.sources[a].chunk_id < last.resp.sources[b].chunk_id

\* C15, amended: search returns at most min(k, vector count) results, each a
\* distinct stored chunk, in non-increasing order of score, the order among
\* equal scores being the one FAISS returns; generate_answer's sources are
\* at most max_context_chunks, in that order.
C15_NonIncreasingScores ==
    /\ Searched =>
          /\ WithinStore(last.results)
          /\ \A a, b \in 1..Len(last.results) : a < b =>
                last.results[a].score >= last.results[b].score
    /\ Answered =>
          /\ SourcesWithinStore(last.resp.sources)
          /\ \A a, b \in 1..Len(last.resp.sources) : a < b =>
                last.resp.sources[a].score >= last.resp.sources[b].score

\* A search for fewer chunks than the index holds, with distinct scores.
C15_Witness ==
    /\ Searched
    /\ last.k = 2
    /\ ntotal(last.pre.store.index) = 3
    /\ Len(last.results) = 2
    /\ last.results[1].score > last.results[2].score

====
